---- MODULE Spec2Model ----
(***************************************************************************)
(* A model of gentags.py: one run of main(), from the parsed command line  *)
(* to its return, with the directory walk of generate_index stepped one    *)
(* os.walk entry at a time.  Paths and file names are sequences of         *)
(* one-character strings, so that joining, normalising, slicing, counting  *)
(* separators, suffix tests and ordering are computed character by         *)
(* character as Python computes them on str.                               *)
(***************************************************************************)
EXTENDS Integers, Sequences, FiniteSets, TLC

VARIABLES pc, argv, args, fs, fs0, ops, log, dirI, directory, stack,
          files_set, visited

vars == <<pc, argv, args, fs, fs0, ops, log, dirI, directory, stack,
          files_set, visited>>

----------------------------------------------------------------------------
(* Bounds of the explored inputs.                                          *)

MaxDirs == 2
MaxExclude == 1
MaxDepth == 2
MaxTypes == 1
MainMaxDirs == 1
MaxTypeArgs == 3

----------------------------------------------------------------------------
(* Sequence helpers.                                                       *)

SeqsUpTo(S, n) == UNION {[1..k -> S] : k \in 0..n}

Range(s) == {s[i] : i \in 1..Len(s)}

RECURSIVE Flatten(_)
Flatten(ss) == IF ss = <<>> THEN <<>> ELSE Head(ss) \o Flatten(Tail(ss))

----------------------------------------------------------------------------
(* Python str operations on character sequences.                           *)

SEP == "/"

\* ord(c) for the characters that occur in the modelled paths
CodePoint(c) ==
    CASE c = "." -> 46
      [] c = "/" -> 47
      [] c = "a" -> 97
      [] c = "b" -> 98
      [] c = "c" -> 99
      [] c = "g" -> 103
      [] c = "m" -> 109
      [] c = "p" -> 112
      [] c = "s" -> 115
      [] c = "t" -> 116
      [] c = "u" -> 117
      [] c = "x" -> 120
      [] c = "y" -> 121

\* a < b on str: code point order, a proper prefix is smaller
RECURSIVE StrLess(_, _)
StrLess(a, b) ==
    IF b = <<>> THEN FALSE
    ELSE IF a = <<>> THEN TRUE
    ELSE IF Head(a) = Head(b) THEN StrLess(Tail(a), Tail(b))
    ELSE CodePoint(Head(a)) < CodePoint(Head(b))

\* s.endswith(suffix)
EndsWith(s, suffix) ==
    /\ Len(suffix) <= Len(s)
    /\ SubSeq(s, Len(s) - Len(suffix) + 1, Len(s)) = suffix

\* s.startswith(prefix)
StartsWith(s, prefix) ==
    /\ Len(prefix) <= Len(s)
    /\ SubSeq(s, 1, Len(prefix)) = prefix

\* s[n:]
SliceFrom(s, n) == IF n >= Len(s) THEN <<>> ELSE SubSeq(s, n + 1, Len(s))

\* s.count(c) for a one-character c
RECURSIVE Count(_, _)
Count(s, c) ==
    IF s = <<>> THEN 0
    ELSE (IF Head(s) = c THEN 1 ELSE 0) + Count(Tail(s), c)

\* s.split("/")
RECURSIVE SplitAcc(_, _, _)
SplitAcc(p, cur, acc) ==
    IF p = <<>> THEN Append(acc, cur)
    ELSE IF Head(p) = SEP THEN SplitAcc(Tail(p), <<>>, Append(acc, cur))
    ELSE SplitAcc(Tail(p), Append(cur, Head(p)), acc)

Split(p) == SplitAcc(p, <<>>, <<>>)

\* "/".join(comps)
RECURSIVE JoinComps(_)
JoinComps(comps) ==
    IF comps = <<>> THEN <<>>
    ELSE IF Len(comps) = 1 THEN Head(comps)
    ELSE Head(comps) \o <<SEP>> \o JoinComps(Tail(comps))

\* os.path.join(a, b) on POSIX
PathJoin(a, b) ==
    IF StartsWith(b, <<SEP>>) THEN b
    ELSE IF a = <<>> \/ EndsWith(a, <<SEP>>) THEN a \o b
    ELSE a \o <<SEP>> \o b

DOT == <<".">>
DOTDOT == <<".", ".">>

\* the component loop of posixpath.normpath
RECURSIVE NormComps(_, _, _)
NormComps(comps, new_comps, initial_slashes) ==
    IF comps = <<>> THEN new_comps
    ELSE LET comp == Head(comps)
             rest == Tail(comps)
         IN IF comp = <<>> \/ comp = DOT
            THEN NormComps(rest, new_comps, initial_slashes)
            ELSE IF \/ comp # DOTDOT
                    \/ (initial_slashes = 0 /\ new_comps = <<>>)
                    \/ (new_comps # <<>> /\ new_comps[Len(new_comps)] = DOTDOT)
                 THEN NormComps(rest, Append(new_comps, comp), initial_slashes)
                 ELSE IF new_comps # <<>>
                      THEN NormComps(rest, SubSeq(new_comps, 1, Len(new_comps) - 1),
                                     initial_slashes)
                      ELSE NormComps(rest, new_comps, initial_slashes)

\* os.path.normpath(path) on POSIX
normpath(path) ==
    IF path = <<>> THEN DOT
    ELSE LET initial_slashes ==
                 IF ~StartsWith(path, <<SEP>>) THEN 0
                 ELSE IF StartsWith(path, <<SEP, SEP>>)
                         /\ ~StartsWith(path, <<SEP, SEP, SEP>>) THEN 2
                 ELSE 1
             joined == JoinComps(NormComps(Split(path), <<>>, initial_slashes))
             result == [i \in 1..initial_slashes |-> SEP] \o joined
         IN IF result = <<>> THEN DOT ELSE result

----------------------------------------------------------------------------
(* The language table.                                                     *)

EXT_c_cpp ==
    << <<".", "c">>, <<".", "h">>, <<".", "c", "p", "p">>, <<".", "h", "p", "p">>,
       <<".", "c", "x", "x">>, <<".", "h", "x", "x">>, <<".", "c", "c">>, <<".", "h", "h">>,
       <<".", "C">>, <<".", "H">>, <<".", "S">>, <<".", "s">> >>

EXT_python ==
    << <<".", "p", "y">>, <<".", "p", "y", "w">>, <<".", "p", "y", "x">>, <<".", "p", "x", "d">>,
       <<".", "p", "x", "i">> >>

EXT_javascript ==
    << <<".", "j", "s">>, <<".", "j", "s", "x">>, <<".", "m", "j", "s">>, <<".", "c", "j", "s">> >>

EXT_typescript ==
    << <<".", "t", "s">>, <<".", "t", "s", "x">>, <<".", "m", "t", "s">>, <<".", "c", "t", "s">> >>

LanguageKeys == <<"c_cpp", "python", "javascript", "typescript">>

FILE_EXTENSIONS ==
    [lang \in Range(LanguageKeys) |->
        CASE lang = "c_cpp" -> EXT_c_cpp
          [] lang = "python" -> EXT_python
          [] lang = "javascript" -> EXT_javascript
          [] lang = "typescript" -> EXT_typescript]

ALL_EXTENSIONS ==
    Flatten([i \in 1..Len(LanguageKeys) |-> FILE_EXTENSIONS[LanguageKeys[i]]])

RECURSIVE ExtendEach(_, _)
ExtendEach(languages, extensions) ==
    IF languages = <<>> THEN extensions
    ELSE ExtendEach(Tail(languages),
                    IF Head(languages) \in DOMAIN FILE_EXTENSIONS
                    THEN extensions \o FILE_EXTENSIONS[Head(languages)]
                    ELSE extensions)

get_language_extensions(languages) ==
    IF languages = <<>> THEN ALL_EXTENSIONS
    ELSE ExtendEach(languages, <<>>)

\* the "all" selection ignored: every name goes through the table lookup
ResolveTypes_NoAll(types) == get_language_extensions(types)

\* main(): args.types after the 'all' test
ResolveTypes(types) ==
    IF "all" \in Range(types) THEN ALL_EXTENSIONS
    ELSE get_language_extensions(types)

\* the values argparse accepts for --types
TypeNames == Range(LanguageKeys) \cup {"all"}

----------------------------------------------------------------------------
(* The scanned tree, below the working directory:                          *)
(*     s/a.c   s/t/b.c   s/t/m.py   s/t/u/g.c                              *)
(* A directory is the sequence of the names leading to it.                 *)

N_s == <<"s">>
N_t == <<"t">>
N_u == <<"u">>

Cwd == <<>>
Dir_s == <<N_s>>
Dir_s_t == <<N_s, N_t>>
Dir_s_t_u == <<N_s, N_t, N_u>>

Nodes == {Cwd, Dir_s, Dir_s_t, Dir_s_t_u}

\* what resolving a path yields when it names no directory of the tree
NoNode == << <<SEP>> >>

\* the subdirectory names and the file names scandir lists in a directory
ListDirs(n) ==
    CASE n = Cwd -> <<N_s>>
      [] n = Dir_s -> <<N_t>>
      [] n = Dir_s_t -> <<N_u>>
      [] n = Dir_s_t_u -> <<>>

ListFiles(n) ==
    CASE n = Cwd -> <<>>
      [] n = Dir_s -> << <<"a", ".", "c">> >>
      [] n = Dir_s_t -> << <<"b", ".", "c">>, <<"m", ".", "p", "y">> >>
      [] n = Dir_s_t_u -> << <<"g", ".", "c">> >>

\* the kernel's lookup of a relative path, component by component
RECURSIVE ResolveComps(_, _)
ResolveComps(comps, node) ==
    IF comps = <<>> THEN node
    ELSE LET comp == Head(comps)
         IN IF comp = <<>> \/ comp = DOT THEN ResolveComps(Tail(comps), node)
            ELSE IF comp = DOTDOT
                 THEN IF node = Cwd THEN NoNode
                      ELSE ResolveComps(Tail(comps), SubSeq(node, 1, Len(node) - 1))
                 ELSE IF Append(node, comp) \in Nodes
                      THEN ResolveComps(Tail(comps), Append(node, comp))
                      ELSE NoNode

Resolve(path) ==
    IF path = <<>> \/ StartsWith(path, <<SEP>>) THEN NoNode
    ELSE ResolveComps(Split(path), Cwd)

\* d is t itself or lies below t
Beneath(d, t) == Len(t) <= Len(d) /\ SubSeq(d, 1, Len(t)) = t

----------------------------------------------------------------------------
(* The files main() writes and removes, in the working directory.          *)

CMD_FILE == "gentags.cmd"

FileNames == {"gentags.files", "gentags.conf", "gentags.cmd", "cscope.out",
              "cscope.in.out", "cscope.po.out", "tags", "my.files", "notes.txt"}

File(kind, lines, conf) == [kind |-> kind, lines |-> lines, conf |-> conf]

Absent == File("absent", <<>>, <<>>)
Old == File("old", <<>>, <<>>)

Write(target) == [op |-> "write", target |-> target, status |-> 0]
Remove(target) == [op |-> "remove", target |-> target, status |-> 0]
Run(tool, status) == [op |-> "run", target |-> tool, status |-> status]

----------------------------------------------------------------------------
(* Command lines.                                                          *)

DirChoices ==
    { <<"s">>, <<"s", "/">>, <<".", "/", "s">>, <<"s", "/", "t">>, <<"x">> }

ExcludeChoices ==
    { <<"s", "/", "t", "/", "u">>, <<"s", "/", "t", "/", "u", "/">>,
      <<".", "/", "s", "/", "t", "/", "u">>, <<"t">> }

MainDirChoices == { <<"s">>, <<"x">> }
MainExcludeChoices == { <<"s", "/", "t", "/">> }
GenTypeChoices == { <<"c_cpp">>, <<"python">>, <<"javascript">> }
IndexFileChoices == {"gentags.files", "my.files"}
ExitStatuses == {0, 1}

AllAbsent == [f \in FileNames |-> Absent]
AllOld == [f \in FileNames |-> Old]
SomeOld == [f \in FileNames |->
               IF f \in {"gentags.files", "tags", "notes.txt"} THEN Old ELSE Absent]

\* the namespace parse_args returns: dirs, depth, exclude, types, index_file,
\* config_file, index_only, clean, show_config
Namespace(d, n, e, t, f, o, i, c, s) ==
    [dirs |-> d, depth |-> n, exclude |-> e, types |-> t,
     index_file |-> f, config_file |-> o,
     index_only |-> i, clean |-> c, show_config |-> s]

\* the state when main() has parsed the command line a, over the files f0
Start(a, f0) ==
    /\ pc = "main"
    /\ argv = a
    /\ args = a
    /\ fs = f0
    /\ fs0 = f0
    /\ ops = <<>>
    /\ log = <<>>
    /\ dirI = 1
    /\ directory = <<>>
    /\ stack = <<>>
    /\ files_set = {}
    /\ visited = {}

\* every mode, over a small choice of scans
Init ==
    \E dirs \in SeqsUpTo(MainDirChoices, MainMaxDirs),
       depth \in 0..MaxDepth,
       exclude \in SeqsUpTo(MainExcludeChoices, MaxExclude),
       types \in SeqsUpTo(TypeNames, MaxTypes),
       index_file \in IndexFileChoices,
       index_only \in BOOLEAN, clean \in BOOLEAN, show_config \in BOOLEAN,
       f0 \in {AllAbsent, SomeOld, AllOld} :
        Start(Namespace(dirs, depth, exclude, types, index_file, "gentags.conf",
                        index_only, clean, show_config), f0)

\* generate mode, over every scan
InitGenerate ==
    \E dirs \in SeqsUpTo(DirChoices, MaxDirs),
       depth \in 0..MaxDepth,
       exclude \in SeqsUpTo(ExcludeChoices, MaxExclude),
       types \in GenTypeChoices,
       index_only \in BOOLEAN,
       f0 \in {AllAbsent, AllOld} :
        Start(Namespace(dirs, depth, exclude, types, "gentags.files", "gentags.conf",
                        index_only, FALSE, FALSE), f0)

\* every selection of types
InitTypes ==
    \E types \in SeqsUpTo(TypeNames, MaxTypeArgs) :
        Start(Namespace(<< <<"s">> >>, MaxDepth, <<>>, types, "gentags.files",
                        "gentags.conf", FALSE, FALSE, FALSE), AllAbsent)

----------------------------------------------------------------------------
(* main(), up to the choice of the mode.                                   *)

\* lines 203-209: the extensions of the selected types, the exclusions normalised
ParseArgs ==
    /\ pc = "main"
    /\ args' = [args EXCEPT
                   !.types = ResolveTypes(args.types),
                   !.exclude = [i \in 1..Len(args.exclude) |-> normpath(args.exclude[i])]]
    /\ pc' = "save_command"
    /\ UNCHANGED <<argv, fs, fs0, ops, log, dirI, directory, stack, files_set, visited>>

\* line 212 and save_command
SaveCommand ==
    /\ pc = "save_command"
    /\ fs' = [fs EXCEPT ![CMD_FILE] = File("command", <<>>, <<argv>>)]
    /\ ops' = Append(ops, Write(CMD_FILE))
    /\ log' = log \o <<"INFO Saving user command...", "INFO User command saved">>
    /\ pc' = "mode"
    /\ UNCHANGED <<argv, args, fs0, dirI, directory, stack, files_set, visited>>

\* the file names clean mode goes through
CleanList_NoCmd ==
    <<args.index_file, args.config_file, "cscope.out", "cscope.in.out",
      "cscope.po.out", "tags">>

CleanList ==
    <<args.index_file, args.config_file, CMD_FILE, "cscope.out", "cscope.in.out",
      "cscope.po.out", "tags">>

\* the loop of lines 220-223 over the names left, from the files f
RECURSIVE CleanLoop(_, _, _, _)
CleanLoop(names, f, o, l) ==
    IF names = <<>> THEN [fs |-> f, ops |-> o, log |-> l]
    ELSE LET file == Head(names)
         IN IF f[file] # Absent
            THEN CleanLoop(Tail(names), [f EXCEPT ![file] = Absent],
                           Append(o, Remove(file)), Append(l, "INFO Removed"))
            ELSE CleanLoop(Tail(names), f, o, l)

\* lines 218-225
Clean ==
    /\ pc = "mode"
    /\ args.clean
    /\ LET r == CleanLoop(CleanList, fs, ops,
                          Append(log, "INFO Cleaning generated files..."))
       IN /\ fs' = r.fs
          /\ ops' = r.ops
          /\ log' = Append(r.log, "INFO Clean completed.")
    /\ pc' = "returned"
    /\ UNCHANGED <<argv, args, fs0, dirI, directory, stack, files_set, visited>>

\* lines 228-236
ShowConfig ==
    /\ pc = "mode"
    /\ ~args.clean
    /\ args.show_config
    /\ log' = Append(log, "INFO Current configuration:")
    /\ pc' = "returned"
    /\ UNCHANGED <<argv, args, fs, fs0, ops, dirI, directory, stack, files_set, visited>>

----------------------------------------------------------------------------
(* Generate mode.                                                          *)

\* write_config, called at line 239
WriteConfig ==
    /\ pc = "mode"
    /\ ~args.clean
    /\ ~args.show_config
    /\ IF args.dirs = <<>>
       THEN /\ log' = Append(log, "ERROR No valid directories to scan")
            /\ pc' = "error"
            /\ UNCHANGED <<fs, ops>>
       ELSE /\ fs' = [fs EXCEPT ![args.config_file] =
                         File("config", <<>>,
                              <<args.types, args.depth, args.dirs, args.exclude>>)]
            /\ ops' = Append(ops, Write(args.config_file))
            /\ log' = log \o <<"INFO Generating config file...",
                               "INFO Config file generated">>
            /\ pc' = "generate_index"
    /\ UNCHANGED <<argv, args, fs0, dirI, directory, stack, files_set, visited>>

\* generate_index, lines 70-75
GenerateIndexBegin ==
    /\ pc = "generate_index"
    /\ IF args.dirs = <<>>
       THEN /\ log' = Append(log, "ERROR No directories to scan")
            /\ pc' = "error"
            /\ UNCHANGED <<files_set, dirI>>
       ELSE /\ log' = Append(log, "INFO Generating index file...")
            /\ files_set' = {}
            /\ dirI' = 1
            /\ pc' = "walk"
    /\ UNCHANGED <<argv, args, fs, fs0, ops, directory, stack, visited>>

\* line 77 and the call of os.walk: the next directory of dirs; a path that
\* names no directory yields nothing
ForDirectory ==
    /\ pc = "walk"
    /\ stack = <<>>
    /\ dirI <= Len(args.dirs)
    /\ directory' = args.dirs[dirI]
    /\ dirI' = dirI + 1
    /\ stack' = IF Resolve(args.dirs[dirI]) \in Nodes THEN <<args.dirs[dirI]>> ELSE <<>>
    /\ UNCHANGED <<pc, argv, args, fs, fs0, ops, log, files_set, visited>>

\* line 81
current_depth(root, top) == Count(SliceFrom(root, Len(top)), SEP)

\* lines 82-83
DepthPruned(root, top, subdirs) ==
    IF current_depth(root, top) >= args.depth THEN <<>> ELSE subdirs

\* line 86
NotExcluded(root, subdirs) ==
    LET Keep(d) == PathJoin(root, d) \notin Range(args.exclude)
    IN SelectSeq(subdirs, Keep)

\* lines 89-91
Matching(root, files) ==
    { PathJoin(root, files[i]) : i \in
        { j \in 1..Len(files) :
            \E k \in 1..Len(args.types) : EndsWith(files[j], args.types[k]) } }

\* lines 78-91 for one entry of os.walk; the subdirectories kept are walked
\* next, before the entries still pending
WalkVisit ==
    /\ pc = "walk"
    /\ stack # <<>>
    /\ LET root == Head(stack)
           node == Resolve(root)
           subdirs == NotExcluded(root, DepthPruned(root, directory, ListDirs(node)))
       IN /\ files_set' = files_set \cup Matching(root, ListFiles(node))
          /\ stack' = [i \in 1..Len(subdirs) |-> PathJoin(root, subdirs[i])]
                          \o Tail(stack)
          /\ visited' = visited \cup {[directory |-> directory, root |-> root]}
    /\ UNCHANGED <<pc, argv, args, fs, fs0, ops, log, dirI, directory>>

\* the paths of S in the order of the set's iteration, here the descending one
RECURSIVE Unsorted(_)
Unsorted(S) ==
    IF S = {} THEN <<>>
    ELSE LET m == CHOOSE x \in S : \A y \in S \ {x} : StrLess(y, x)
         IN <<m>> \o Unsorted(S \ {m})

\* sorted(files_set)
RECURSIVE sorted(_)
sorted(S) ==
    IF S = {} THEN <<>>
    ELSE LET m == CHOOSE x \in S : \A y \in S \ {x} : StrLess(x, y)
         IN <<m>> \o sorted(S \ {m})

\* lines 93-100 with an empty result raised as an error before the file is opened
WriteIndex_RaiseOnEmpty ==
    /\ pc = "walk"
    /\ stack = <<>>
    /\ dirI > Len(args.dirs)
    /\ IF files_set = {}
       THEN /\ log' = Append(log, "ERROR No source files found")
            /\ pc' = "error"
            /\ UNCHANGED <<fs, ops>>
       ELSE /\ fs' = [fs EXCEPT ![args.index_file] =
                         File("index", sorted(files_set), <<>>)]
            /\ ops' = Append(ops, Write(args.index_file))
            /\ log' = Append(log, "INFO Index file generated")
            /\ pc' = "index_done"
    /\ UNCHANGED <<argv, args, fs0, dirI, directory, stack, files_set, visited>>

\* lines 93-100
WriteIndex ==
    /\ pc = "walk"
    /\ stack = <<>>
    /\ dirI > Len(args.dirs)
    /\ fs' = [fs EXCEPT ![args.index_file] = File("index", sorted(files_set), <<>>)]
    /\ ops' = Append(ops, Write(args.index_file))
    /\ log' = Append(log, IF files_set = {}
                          THEN "WARNING No source files found"
                          ELSE "INFO Index file generated")
    /\ pc' = "index_done"
    /\ UNCHANGED <<argv, args, fs0, dirI, directory, stack, files_set, visited>>

\* lines 243-245 without the return: the run goes on to line 249
IndexOnlyReturn_NoReturn ==
    /\ pc = "index_done"
    /\ args.index_only
    /\ \E status \in ExitStatuses :
        /\ ops' = Append(ops, Run("cscope", status))
        /\ pc' = IF status = 0 THEN "ctags" ELSE "except"
    /\ log' = log \o <<"INFO Index file generation completed",
                       "INFO Generating cscope database...">>
    /\ UNCHANGED <<argv, args, fs, fs0, dirI, directory, stack, files_set, visited>>

\* lines 243-245
IndexOnlyReturn ==
    /\ pc = "index_done"
    /\ args.index_only
    /\ log' = Append(log, "INFO Index file generation completed")
    /\ pc' = "returned"
    /\ UNCHANGED <<argv, args, fs, fs0, ops, dirI, directory, stack, files_set, visited>>

\* generate_cscope with the exit status not checked
GenerateCscope_Unchecked ==
    /\ pc = "index_done"
    /\ ~args.index_only
    /\ \E status \in ExitStatuses :
        /\ ops' = Append(ops, Run("cscope", status))
        /\ log' = log \o <<"INFO Generating cscope database...",
                           "INFO Cscope database generation completed.">>
        /\ pc' = "ctags"
    /\ UNCHANGED <<argv, args, fs, fs0, dirI, directory, stack, files_set, visited>>

\* line 249 and generate_cscope: check=True raises on a non-zero exit status
GenerateCscope ==
    /\ pc = "index_done"
    /\ ~args.index_only
    /\ \E status \in ExitStatuses :
        /\ ops' = Append(ops, Run("cscope", status))
        /\ IF status = 0
           THEN /\ log' = log \o <<"INFO Generating cscope database...",
                                   "INFO Cscope database generation completed.">>
                /\ pc' = "ctags"
           ELSE /\ log' = Append(log, "INFO Generating cscope database...")
                /\ pc' = "except"
    /\ UNCHANGED <<argv, args, fs, fs0, dirI, directory, stack, files_set, visited>>

\* line 250 and generate_ctags
GenerateCtags ==
    /\ pc = "ctags"
    /\ \E status \in ExitStatuses :
        /\ ops' = Append(ops, Run("ctags", status))
        /\ IF status = 0
           THEN /\ log' = log \o <<"INFO Generating tags file...",
                                   "INFO Tags file generation completed.">>
                /\ pc' = "finish"
           ELSE /\ log' = Append(log, "INFO Generating tags file...")
                /\ pc' = "except"
    /\ UNCHANGED <<argv, args, fs, fs0, dirI, directory, stack, files_set, visited>>

\* lines 251-253
HandleCalledProcessError ==
    /\ pc = "except"
    /\ log' = Append(log, "ERROR Command execution failed")
    /\ pc' = "returned"
    /\ UNCHANGED <<argv, args, fs, fs0, ops, dirI, directory, stack, files_set, visited>>

\* line 255
Finish ==
    /\ pc = "finish"
    /\ log' = Append(log, "INFO All operations completed successfully!")
    /\ pc' = "returned"
    /\ UNCHANGED <<argv, args, fs, fs0, ops, dirI, directory, stack, files_set, visited>>

----------------------------------------------------------------------------
(* Specifications.                                                         *)

NextGenerate ==
    \/ ParseArgs
    \/ SaveCommand
    \/ WriteConfig
    \/ GenerateIndexBegin
    \/ ForDirectory
    \/ WalkVisit
    \/ WriteIndex
    \/ IndexOnlyReturn
    \/ GenerateCscope
    \/ GenerateCtags
    \/ HandleCalledProcessError
    \/ Finish

Next ==
    \/ NextGenerate
    \/ Clean
    \/ ShowConfig

\* a run of main() in any mode
Spec == Init /\ [][Next]_vars

\* a run of main() in generate mode
SpecGenerate == InitGenerate /\ [][NextGenerate]_vars

\* the resolution of the types at the start of main()
SpecTypes == InitTypes /\ [][ParseArgs]_vars

----------------------------------------------------------------------------
(* Vocabulary of the properties.                                           *)

GenerateMode == ~args.clean /\ ~args.show_config

\* generate_index has returned
PostIndex == {"index_done", "ctags", "except", "finish", "returned"}

IndexLines == fs[args.index_file].lines

IsRun(i, tool) == ops[i].op = "run" /\ ops[i].target = tool

Runs(tool) == {i \in 1..Len(ops) : IsRun(i, tool)}

\* the directory levels between the directory walked and the root it was
\* reached from
Levels(v) == Len(Resolve(v.root)) - Len(Resolve(v.directory))

\* the directory that holds the file of an index line
FileDir(p) ==
    LET comps == Split(p)
    IN Resolve(JoinComps(SubSeq(comps, 1, Len(comps) - 1)))

WARNING_EMPTY == "WARNING No source files found"

----------------------------------------------------------------------------
(* Properties.                                                             *)

\* C1: once generate_index has completed over a non-empty directory list, the
\* lines of the index file are strictly ascending in the order of str, hence
\* sorted and without a path occurring twice, also when roots overlap or are
\* listed more than once.
C1_IndexSortedUnique ==
    (pc \in PostIndex /\ args.dirs # <<>>) =>
        /\ fs[args.index_file].kind = "index"
        /\ \A i, j \in 1..Len(IndexLines) :
              i < j => StrLess(IndexLines[i], IndexLines[j])

\* a root listed twice, and three files reached through it
C1_Witness ==
    /\ pc = "index_done"
    /\ Len(args.dirs) = 2
    /\ args.dirs[1] = args.dirs[2]
    /\ Len(IndexLines) >= 3

\* an overlap of two different roots: s and s/t
C1_WitnessOverlap ==
    /\ pc = "index_done"
    /\ args.dirs = << <<"s">>, <<"s", "/", "t">> >>
    /\ Len(IndexLines) >= 3

\* C2: every directory walked from a root lies at most depth levels below that
\* root, and the matching files of every directory walked are collected; so
\* with depth = 1 no file of a grandchild directory of a root is reached
\* through that root.
C2_DepthLimit ==
    \A v \in visited :
        /\ Levels(v) <= args.depth
        /\ Matching(v.root, ListFiles(Resolve(v.root))) \subseteq files_set

\* C3: a directory whose normalised path is among the exclusions is never
\* walked, nor any directory below it, and no file below it is in the index.
C3_ExcludedNeverScanned ==
    pc # "main" =>
        \A k \in 1..Len(args.exclude) :
            LET t == Resolve(args.exclude[k])
            IN t \in Nodes =>
                /\ \A v \in visited : ~Beneath(Resolve(v.root), t)
                /\ \A p \in files_set : ~Beneath(FileDir(p), t)

\* C4: a generate-mode run without directories writes no file and starts no
\* process: the files stay as they were when the run started.
C4_NoDirsNoSideEffect ==
    (GenerateMode /\ args.dirs = <<>>) => (fs = fs0 /\ ops = <<>>)

\* C5: a show-config run writes no file and starts no process, from the start
\* of main to its exit.
C5_ShowConfigNoWrite ==
    (args.show_config /\ ~args.clean) => (fs = fs0 /\ ops = <<>>)

\* C6: in a generate-mode run without index-only, cscope is started only
\* after the config file and the index file were written, ctags only after
\* cscope exited with status 0, each at most once; after a non-zero exit of
\* cscope, ctags is never started, the run does not raise, and the config and
\* index files written stay in place.
C6_AdapterSequence ==
    (GenerateMode /\ ~args.index_only) =>
        /\ \A i \in Runs("cscope") :
              /\ \E j \in 1..(i - 1) : ops[j] = Write(args.config_file)
              /\ \E j \in 1..(i - 1) : ops[j] = Write(args.index_file)
        /\ \A i \in Runs("ctags") :
              \E j \in 1..(i - 1) : ops[j] = Run("cscope", 0)
        /\ Cardinality(Runs("cscope")) <= 1
        /\ Cardinality(Runs("ctags")) <= 1
        /\ (\E i \in Runs("cscope") : ops[i].status # 0) =>
              /\ Runs("ctags") = {}
              /\ pc \in {"except", "returned"}
              /\ fs[args.config_file].kind = "config"
              /\ fs[args.index_file].kind = "index"

\* cscope failed and the run has returned
C6_Witness ==
    /\ pc = "returned"
    /\ GenerateMode
    /\ ~args.index_only
    /\ Run("cscope", 1) \in Range(ops)

\* both adapters ran
C6_WitnessBoth ==
    /\ pc = "returned"
    /\ Runs("cscope") # {}
    /\ Runs("ctags") # {}

C8_AllIsUnion ==
    (pc # "main" /\ "all" \in Range(argv.types)) =>
        /\ Range(args.types) =
              UNION {Range(FILE_EXTENSIONS[g]) :
                        g \in {"c_cpp", "python", "javascript", "typescript"}}
        /\ \A i, j \in 1..Len(args.types) : i < j => args.types[i] # args.types[j]

\* 'all' selected together with a named group
C8_Witness ==
    /\ pc # "main"
    /\ "all" \in Range(argv.types)
    /\ "python" \in Range(argv.types)

\* C9: when no file matches over a non-empty directory list, generate_index
\* does not raise, the index file is written with zero lines over whatever was
\* there, the warning is logged, and the run goes on as after any other
\* result: it returns at once under index-only, and otherwise starts cscope,
\* and ctags after a successful cscope.
C9_EmptyResult ==
    (args.dirs # <<>> /\ files_set = {} /\ pc \notin {"main", "save_command", "mode",
                                                     "generate_index", "walk"}) =>
        /\ pc # "error"
        /\ fs[args.index_file] = File("index", <<>>, <<>>)
        /\ WARNING_EMPTY \in Range(log)
        /\ pc = "returned" =>
              IF args.index_only THEN Runs("cscope") = {} /\ Runs("ctags") = {}
              ELSE /\ Runs("cscope") # {}
                   /\ Run("cscope", 0) \in Range(ops) => Runs("ctags") # {}

\* an empty result over an existing index file, both adapters run afterwards
C9_Witness ==
    /\ pc = "returned"
    /\ args.dirs # <<>>
    /\ files_set = {}
    /\ fs0[args.index_file] = Old
    /\ Run("ctags", 0) \in Range(ops)

\* C10: in a generate-mode run with index-only over a non-empty directory
\* list, the config file is written before the index file, no adapter is ever
\* started, and the run returns without raising.
C10_IndexOnly ==
    (GenerateMode /\ args.index_only /\ args.dirs # <<>>) =>
        /\ Runs("cscope") = {} /\ Runs("ctags") = {}
        /\ pc \notin {"error", "ctags", "except", "finish"}
        /\ \A i \in 1..Len(ops) :
              ops[i] = Write(args.index_file) =>
                  \E j \in 1..(i - 1) : ops[j] = Write(args.config_file)
        /\ pc = "returned" =>
              /\ fs[args.config_file].kind = "config"
              /\ fs[args.index_file].kind = "index"

\* an index-only run has returned
C10_Witness ==
    /\ pc = "returned"
    /\ GenerateMode
    /\ args.index_only
    /\ args.dirs # <<>>
    /\ Len(IndexLines) >= 1

====
